---- MODULE Spec2Model ----
(***************************************************************************)
(* Session orchestrator of spore-warriors-wasm (src/src/lib.rs).           *)
(*                                                                         *)
(* Four process-wide slots, each a Mutex<Option<T>>, and the exported      *)
(* operations that lock them, inspect them, call the game engine and       *)
(* write results back.  A call is modelled as the sequence of its lock     *)
(* acquisitions: one step per `X.lock()` of the source, the step carrying  *)
(* all the code that runs between that acquisition and the next one (or    *)
(* the return).  Guards are dropped when the function returns, so a        *)
(* caller holds every lock it has taken until its call is done.  A call    *)
(* begins with its first acquisition.                                      *)
(*                                                                         *)
(* The engine (spore_warriors_core) is an opaque collaborator: each of its *)
(* calls is a nondeterministic choice among the outcomes its signature     *)
(* allows (Err, or Ok with the value the wrapper then stores).  So is the   *)
(* adapter that turns values into JsValue (serde_wasm_bindgen): each       *)
(* to_value and from_value of the source either succeeds or returns Err.   *)
(*                                                                         *)
(* Two variables record history and are read by no action: `returned`, the *)
(* call that returned in the last step, and `shadow`, the slots as the     *)
(* returned calls would have left them run whole, one after another        *)
(* (switched on in SerialSpec only).                                       *)
(***************************************************************************)
EXTENDS Integers, Sequences, FiniteSets, TLC

\* ------------------------------------------------------------------ bounds
NumProcs  == 2      \* concurrent callers of the exported functions
MaxPoint  == 1      \* map points are 0..MaxPoint

Procs     == 1..NumProcs
Points    == 0..MaxPoint
Seeds     == {42, 7}          \* seeds offered to create_game
PlayerIds == {1}              \* player_id offered to create_session
GuestIds  == {2}              \* warrior supplied to create_standalone_battle

\* ------------------------------------------------------------------ state
VARIABLES
    GAME,                   \* Option<Game>:               <<>> or <<game>>
    WARRIOR_CONTEXT,        \* Option<WarriorContext>:     <<>> or <<warrior>>
    WARRIOR_DECK_CONTEXT,   \* Option<WarriorDeckContext>: <<>> or <<deck>>
    PVE_BATTLE,             \* Option<MapBattlePVE>:       <<>> or <<battle>>
    mutex,                  \* slot name -> holder of its Mutex (0: unlocked)
    pc,                     \* caller -> "idle", or the lock label it waits at
    call,                   \* caller -> the call it is running (NoCall when idle)
    local,                  \* caller -> value kept across a lock acquisition
    returned,               \* the call that returned in the last step, if any
    shadow                  \* history: the slots had the returned calls run one
                            \* after another, whole, in the order they returned

vars == <<GAME, WARRIOR_CONTEXT, WARRIOR_DECK_CONTEXT, PVE_BATTLE,
          mutex, pc, call, local, returned, shadow>>

SlotNames == {"GAME", "WARRIOR_CONTEXT", "WARRIOR_DECK_CONTEXT", "PVE_BATTLE"}

None       == <<>>
Some(v)    == <<v>>
is_some(o) == o # <<>>
is_none(o) == o = <<>>
Unwrap(o)  == o[1]

\* The four slots as one value: G, W, D, B.
Slots == [G |-> GAME, W |-> WARRIOR_CONTEXT, D |-> WARRIOR_DECK_CONTEXT,
          B |-> PVE_BATTLE]

\* ------------------------------------------------------------------ results
\* Err(JsValue::from_str(..)) messages, as the source spells them.
ErrGameInitialized  == "game instance has already been initailized"
ErrSessionConflict  == "warrior or deck have already been initialized"
ErrBattleTriggered  == "battle already triggered from map"
ErrNoBattle         == "no battle triggered from map"
ErrNoneGame         == "none game option"
ErrNoneWarrior      == "none warrior option"
ErrNoneDeck         == "none deck option"
ErrNoneBattle       == "none battle option"
ErrEngine           == "engine error"       \* e.to_string() of an engine Err
ErrDecode           == "invalid input"      \* serde_wasm_bindgen::from_value Err
ErrSerialize        == "serialize error"    \* serde_wasm_bindgen::to_value Err
OkUnit              == "Ok"
OkMove              == "Ok(Move)"
OkFight             == "Ok(Fight)"
OkNull              == "Ok(NULL)"

Errors == {ErrGameInitialized, ErrSessionConflict, ErrBattleTriggered, ErrNoBattle,
           ErrNoneGame, ErrNoneWarrior, ErrNoneDeck, ErrNoneBattle, ErrEngine,
           ErrDecode, ErrSerialize}

\* ------------------------------------------------------------------ calls
\* A call: the exported function and the arguments it is entered with.  The
\* point of create_session, peak_movement and move_player is drawn by the segment
\* that builds it from point_x and point_y.
NoCall == [op |-> "none", seed |-> 0, player_id |-> 0]

Calls ==
    [op : {"create_game"}, seed : Seeds, player_id : {0}]
    \cup [op : {"create_session"}, seed : {0}, player_id : PlayerIds]
    \cup [op : {"create_standalone_battle"}, seed : {0}, player_id : GuestIds]
    \cup [op : {"peak_movement", "move_player", "create_pve_battle", "start",
                "iterate", "check_peak_target", "destroy"},
          seed : {0}, player_id : {0}]

\* The first lock a call takes.
FirstLabel(op) ==
    CASE op = "create_game"              -> "create_game_GAME"
      [] op = "create_session"           -> "create_session_WARRIOR"
      [] op = "peak_movement"            -> "peak_movement_GAME"
      [] op = "move_player"              -> "move_player_GAME"
      [] op = "create_pve_battle"        -> "create_pve_battle_BATTLE"
      [] op = "start"                    -> "start_GAME"
      [] op = "iterate"                  -> "iterate_GAME"
      [] op = "check_peak_target"        -> "check_peak_target_BATTLE"
      [] op = "destroy"                  -> "destroy_BATTLE"
      [] op = "create_standalone_battle" -> "create_standalone_battle_BATTLE"

\* The Mutex a lock label acquires.
LockOf(lbl) ==
    CASE lbl \in {"create_game_GAME", "create_session_GAME", "peak_movement_GAME",
                  "move_player_GAME", "start_GAME", "iterate_GAME"}
            -> "GAME"
      [] lbl \in {"create_session_WARRIOR", "peak_movement_WARRIOR",
                  "move_player_WARRIOR", "destroy_WARRIOR"}
            -> "WARRIOR_CONTEXT"
      [] lbl \in {"create_session_DECK", "move_player_DECK", "destroy_DECK"}
            -> "WARRIOR_DECK_CONTEXT"
      [] lbl \in {"move_player_BATTLE", "create_pve_battle_BATTLE", "start_BATTLE",
                  "iterate_BATTLE", "check_peak_target_BATTLE", "destroy_BATTLE",
                  "create_standalone_battle_BATTLE"}
            -> "PVE_BATTLE"

\* What a step of a call yields: the slots after it, where the call goes next
\* ("done": it returns res and drops its guards), and the value it carries on.
Return(S, r)     == [S |-> S, pc |-> "done", res |-> r, loc |-> None]
Goto(S, lbl, l)  == [S |-> S, pc |-> lbl, res |-> "", loc |-> l]

\* ------------------------------------------------------------------ engine
\* Game::new(pool, seed): Err on a bad pool, else a game on its start node.
Game_new(seed) ==
    {None, Some([seed |-> seed, map |-> 0])}

\* Game::new_session(player_id, point, raw_potion): Err, or the (warrior, deck)
\* pair of that player placed at point.
new_session(game, player_id, point) ==
    {None,
     Some([game    |-> [game EXCEPT !.map = point],
           warrior |-> [id |-> player_id, point |-> point],
           deck    |-> [id |-> player_id, point |-> point]])}

\* Map::move_to(&mut warrior, &mut deck, point, selections, &mut controller):
\* Err (nothing applied), or the move applied to map, warrior and deck; a
\* Fight outcome carries a battle built from the moved warrior and deck.
move_to(game, warrior, deck, point) ==
    LET g == [game EXCEPT !.map = point]
        w == [warrior EXCEPT !.point = point]
        d == [deck EXCEPT !.point = point]
    IN  {[ok |-> FALSE, kind |-> "Err", game |-> game, warrior |-> warrior,
          deck |-> deck, battle |-> None]}
        \cup {[ok |-> TRUE, kind |-> "Move", game |-> g, warrior |-> w, deck |-> d,
               battle |-> None]}
        \cup {[ok |-> TRUE, kind |-> "Fight", game |-> g, warrior |-> w, deck |-> d,
               battle |-> Some([player |-> w, deck |-> d, phase |-> "created"])]}

\* MapBattlePVE::create(player, player_deck, enemies): Err or the battle.
MapBattlePVE_create(player, player_deck) ==
    {None, Some([player |-> player, deck |-> player_deck, phase |-> "created"])}

\* MapBattlePVE::start(&mut controller): Err or the battle started.
battle_start(battle) ==
    {None, Some([battle EXCEPT !.phase = "started"])}

\* MapBattlePVE::run(operations, &mut controller): Err or the battle advanced.
battle_run(battle) ==
    {None, Some([battle EXCEPT !.phase = "running"])}

\* MapBattlePVE::destroy(self): Err, or the (warrior, deck, _) it held.
battle_destroy(battle) ==
    {None, Some([warrior |-> battle.player, deck |-> battle.deck])}

\* ------------------------------------------------------------------ create_game
\* Mutant: the is_some check of create_game left out.
create_game_GAME_Unchecked(c, l, S) ==
    {IF is_none(g) THEN Return(S, ErrEngine)
                   ELSE Return([S EXCEPT !.G = g], OkUnit)
     : g \in Game_new(c.seed)}

create_game_GAME(c, l, S) ==
    IF is_some(S.G)
    THEN {Return(S, ErrGameInitialized)}
    ELSE {IF is_none(g) THEN Return(S, ErrEngine)
                        ELSE Return([S EXCEPT !.G = g], OkUnit)
          : g \in Game_new(c.seed)}

\* ------------------------------------------------------------------ create_session
create_session_WARRIOR(c, l, S) ==
    {Goto(S, "create_session_DECK", None)}

\* Mutant: create_session without its already-initialized check.
create_session_DECK_Unchecked(c, l, S) ==
    {Goto(S, "create_session_GAME", None)}

create_session_DECK(c, l, S) ==
    IF is_some(S.W) \/ is_some(S.D)
    THEN {Return(S, ErrSessionConflict)}
    ELSE {Goto(S, "create_session_GAME", None)}

\* Mutant: create_session stores the warrior and forgets the deck.
create_session_GAME_WarriorOnly(c, l, S) ==
    IF is_none(S.G)
    THEN {Return(S, ErrNoneGame)}
    ELSE {IF is_none(r)
          THEN Return(S, ErrEngine)
          ELSE Return([S EXCEPT !.G = Some(Unwrap(r).game),
                                !.W = Some(Unwrap(r).warrior)], OkUnit)
          : r \in UNION {new_session(Unwrap(S.G), c.player_id, point)
                         : point \in Points}}

create_session_GAME(c, l, S) ==
    IF is_none(S.G)
    THEN {Return(S, ErrNoneGame)}
    ELSE {IF is_none(r)
          THEN Return(S, ErrEngine)
          ELSE Return([S EXCEPT !.G = Some(Unwrap(r).game),
                                !.W = Some(Unwrap(r).warrior),
                                !.D = Some(Unwrap(r).deck)], OkUnit)
          : r \in UNION {new_session(Unwrap(S.G), c.player_id, point)
                         : point \in Points}}

\* ------------------------------------------------------------------ peak_movement
peak_movement_GAME(c, l, S) ==
    IF is_none(S.G)
    THEN {Return(S, ErrNoneGame)}
    ELSE {Goto(S, "peak_movement_WARRIOR", None)}

peak_movement_WARRIOR(c, l, S) ==
    IF is_none(S.W)
    THEN {Return(S, ErrNoneWarrior)}
    ELSE {Return(S, r) : r \in {ErrEngine, ErrSerialize, OkUnit, OkNull}}

\* ------------------------------------------------------------------ move_player
move_player_GAME(c, l, S) ==
    IF is_none(S.G)
    THEN {Return(S, ErrNoneGame)}
    ELSE {Goto(S, "move_player_WARRIOR", None)}

move_player_WARRIOR(c, l, S) ==
    IF is_none(S.W)
    THEN {Return(S, ErrNoneWarrior)}
    ELSE {Goto(S, "move_player_DECK", None)}

\* Mutant: a Fight outcome goes on to the install without the move having been
\* written to game, warrior and deck.
move_player_DECK_Deferred(c, l, S) ==
    IF is_none(S.D)
    THEN {Return(S, ErrNoneDeck)}
    ELSE UNION
         {LET T == [S EXCEPT !.G = Some(m.game), !.W = Some(m.warrior),
                             !.D = Some(m.deck)]
          IN  CASE m.kind = "Err"   -> {Return(S, ErrEngine)}
                [] m.kind = "Move"  -> {Return(T, js_value)
                                        : js_value \in {OkMove, ErrSerialize}}
                [] m.kind = "Fight" -> {Goto(S, "move_player_BATTLE",
                                             [battle |-> m.battle,
                                              js_value |-> js_value])
                                        : js_value \in {OkFight, ErrSerialize}}
          : m \in UNION {move_to(Unwrap(S.G), Unwrap(S.W), Unwrap(S.D), point)
                         : point \in Points}}

move_player_DECK(c, l, S) ==
    IF is_none(S.D)
    THEN {Return(S, ErrNoneDeck)}
    ELSE UNION
         {LET T == [S EXCEPT !.G = Some(m.game), !.W = Some(m.warrior),
                             !.D = Some(m.deck)]
          IN  CASE m.kind = "Err"   -> {Return(S, ErrEngine)}
                [] m.kind = "Move"  -> {Return(T, js_value)
                                        : js_value \in {OkMove, ErrSerialize}}
                [] m.kind = "Fight" -> {Goto(T, "move_player_BATTLE",
                                             [battle |-> m.battle,
                                              js_value |-> js_value])
                                        : js_value \in {OkFight, ErrSerialize}}
          : m \in UNION {move_to(Unwrap(S.G), Unwrap(S.W), Unwrap(S.D), point)
                         : point \in Points}}

\* Mutant: the Fight install without its is_some check.
move_player_BATTLE_Unchecked(c, l, S) ==
    {Return([S EXCEPT !.B = l.battle], l.js_value)}

move_player_BATTLE(c, l, S) ==
    IF is_some(S.B)
    THEN {Return(S, ErrBattleTriggered)}
    ELSE {Return([S EXCEPT !.B = l.battle], l.js_value)}

\* ------------------------------------------------------------------ create_pve_battle
\* Mutant: the wrapper handed out without looking at the Battle slot.
create_pve_battle_BATTLE_Unchecked(c, l, S) ==
    {Return(S, OkUnit)}

create_pve_battle_BATTLE(c, l, S) ==
    IF is_none(S.B)
    THEN {Return(S, ErrNoBattle)}
    ELSE {Return(S, OkUnit)}

\* ------------------------------------------------------------------ WasmBattle
start_GAME(c, l, S) ==
    IF is_none(S.G)
    THEN {Return(S, ErrNoneGame)}
    ELSE {Goto(S, "start_BATTLE", None)}

start_BATTLE(c, l, S) ==
    IF is_none(S.B)
    THEN {Return(S, ErrNoneBattle)}
    ELSE UNION
         {IF is_none(b) THEN {Return(S, ErrEngine)}
                        ELSE {Return([S EXCEPT !.B = b], r)
                              : r \in {OkUnit, ErrSerialize}}
          : b \in battle_start(Unwrap(S.B))}

iterate_GAME(c, l, S) ==
    IF is_none(S.G)
    THEN {Return(S, ErrNoneGame)}
    ELSE {Goto(S, "iterate_BATTLE", None)}

iterate_BATTLE(c, l, S) ==
    IF is_none(S.B)
    THEN {Return(S, ErrNoneBattle)}
    ELSE {Return(S, ErrDecode)}
         \cup UNION
              {IF is_none(b) THEN {Return(S, ErrEngine)}
                             ELSE {Return([S EXCEPT !.B = b], r)
                                   : r \in {OkUnit, ErrSerialize}}
               : b \in battle_run(Unwrap(S.B))}

check_peak_target_BATTLE(c, l, S) ==
    IF is_none(S.B)
    THEN {Return(S, ErrNoneBattle)}
    ELSE {Return(S, r) : r \in {ErrDecode, ErrEngine, OkUnit}}

\* Mutant: destroy on an empty Battle slot carries on instead of failing.
destroy_BATTLE_Lenient(c, l, S) ==
    IF is_none(S.B)
    THEN {Return([S EXCEPT !.W = None, !.D = None], OkUnit)}
    ELSE {IF is_none(r) THEN Return([S EXCEPT !.B = None], ErrEngine)
                        ELSE Goto([S EXCEPT !.B = None], "destroy_WARRIOR", r)
          : r \in battle_destroy(Unwrap(S.B))}

destroy_BATTLE(c, l, S) ==
    IF is_none(S.B)
    THEN {Return(S, ErrNoneBattle)}
    ELSE {IF is_none(r) THEN Return([S EXCEPT !.B = None], ErrEngine)
                        ELSE Goto([S EXCEPT !.B = None], "destroy_WARRIOR", r)
          : r \in battle_destroy(Unwrap(S.B))}

destroy_WARRIOR(c, l, S) ==
    {Goto(S, "destroy_DECK", l)}

\* Mutant: destroy puts the warrior back and drops the deck.
destroy_DECK_WarriorOnly(c, l, S) ==
    {Return([S EXCEPT !.W = Some(Unwrap(l).warrior)], OkUnit)}

destroy_DECK(c, l, S) ==
    {Return([S EXCEPT !.W = Some(Unwrap(l).warrior), !.D = Some(Unwrap(l).deck)],
            OkUnit)}

\* ------------------------------------------------------------------ create_standalone_battle
create_standalone_battle_BATTLE(c, l, S) ==
    {Return(S, ErrDecode)}
    \cup {IF is_none(b) THEN Return(S, ErrEngine)
                        ELSE Return([S EXCEPT !.B = b], OkUnit)
          : b \in MapBattlePVE_create([id |-> c.player_id, point |-> 0],
                                      [id |-> c.player_id, point |-> 0])}

\* ------------------------------------------------------------------ dispatch
\* The outcomes of the code that runs once the lock of lbl is acquired.
Segment(lbl, c, l, S) ==
    CASE lbl = "create_game_GAME"                -> create_game_GAME(c, l, S)
      [] lbl = "create_session_WARRIOR"          -> create_session_WARRIOR(c, l, S)
      [] lbl = "create_session_DECK"             -> create_session_DECK(c, l, S)
      [] lbl = "create_session_GAME"             -> create_session_GAME(c, l, S)
      [] lbl = "peak_movement_GAME"              -> peak_movement_GAME(c, l, S)
      [] lbl = "peak_movement_WARRIOR"           -> peak_movement_WARRIOR(c, l, S)
      [] lbl = "move_player_GAME"                -> move_player_GAME(c, l, S)
      [] lbl = "move_player_WARRIOR"             -> move_player_WARRIOR(c, l, S)
      [] lbl = "move_player_DECK"                -> move_player_DECK(c, l, S)
      [] lbl = "move_player_BATTLE"              -> move_player_BATTLE(c, l, S)
      [] lbl = "create_pve_battle_BATTLE"        -> create_pve_battle_BATTLE(c, l, S)
      [] lbl = "start_GAME"                      -> start_GAME(c, l, S)
      [] lbl = "start_BATTLE"                    -> start_BATTLE(c, l, S)
      [] lbl = "iterate_GAME"                    -> iterate_GAME(c, l, S)
      [] lbl = "iterate_BATTLE"                  -> iterate_BATTLE(c, l, S)
      [] lbl = "check_peak_target_BATTLE"        -> check_peak_target_BATTLE(c, l, S)
      [] lbl = "destroy_BATTLE"                  -> destroy_BATTLE(c, l, S)
      [] lbl = "destroy_WARRIOR"                 -> destroy_WARRIOR(c, l, S)
      [] lbl = "destroy_DECK"                    -> destroy_DECK(c, l, S)
      [] lbl = "create_standalone_battle_BATTLE" -> create_standalone_battle_BATTLE(c, l, S)

\* ------------------------------------------------------------------ whole calls
\* The outcomes of call c run alone from lock label lbl on slots S: its segments
\* one after another with nothing in between.
RECURSIVE RunFrom(_, _, _, _)
RunFrom(lbl, c, l, S) ==
    UNION {IF o.pc = "done" THEN {o} ELSE RunFrom(o.pc, c, o.loc, o.S)
           : o \in Segment(lbl, c, l, S)}

RunCall(c, S) == RunFrom(FirstLabel(c.op), c, None, S)

\* The slot of S that Mutex s guards.
SlotOf(S, s) ==
    CASE s = "GAME"                 -> S.G
      [] s = "WARRIOR_CONTEXT"      -> S.W
      [] s = "WARRIOR_DECK_CONTEXT" -> S.D
      [] s = "PVE_BATTLE"           -> S.B

\* The history variable after call c returned r holding the locks in held and
\* leaving the slots T: the slots of a whole run of c on the history's slots that
\* returns r and leaves the slots c had locked as c left them (the same arguments
\* and engine answers); ok turns FALSE when there is no such run.
Commit(h, c, r, T, held) ==
    LET fits == {o \in RunCall(c, h.S) :
                    /\ o.res = r
                    /\ \A s \in held : SlotOf(o.S, s) = SlotOf(T, s)}
    IN  IF ~h.track THEN h
        ELSE IF fits = {} THEN [h EXCEPT !.ok = FALSE]
        ELSE [h EXCEPT !.S = (CHOOSE o \in fits : TRUE).S]

\* ------------------------------------------------------------------ actions
NoReturn == [proc |-> 0, call |-> NoCall, res |-> ""]

EmptySlots == [G |-> None, W |-> None, D |-> None, B |-> None]

Init ==
    /\ GAME = None
    /\ WARRIOR_CONTEXT = None
    /\ WARRIOR_DECK_CONTEXT = None
    /\ PVE_BATTLE = None
    /\ mutex = [s \in SlotNames |-> 0]
    /\ pc = [t \in Procs |-> "idle"]
    /\ call = [t \in Procs |-> NoCall]
    /\ local = [t \in Procs |-> None]
    /\ returned = NoReturn
    /\ shadow = [track |-> FALSE, ok |-> TRUE, S |-> EmptySlots]

\* Mutant: every guard is dropped at the end of its segment, not at the return.
Acquire_EarlyRelease(t, lbl, c) ==
    /\ mutex[LockOf(lbl)] = 0
    /\ \E o \in Segment(lbl, c, local[t], Slots) :
        /\ GAME' = o.S.G
        /\ WARRIOR_CONTEXT' = o.S.W
        /\ WARRIOR_DECK_CONTEXT' = o.S.D
        /\ PVE_BATTLE' = o.S.B
        /\ local' = [local EXCEPT ![t] = o.loc]
        /\ mutex' = mutex
        /\ IF o.pc = "done"
           THEN /\ pc' = [pc EXCEPT ![t] = "idle"]
                /\ call' = [call EXCEPT ![t] = NoCall]
                /\ returned' = [proc |-> t, call |-> c, res |-> o.res]
                /\ shadow' = Commit(shadow, c, o.res, o.S, {LockOf(lbl)})
           ELSE /\ pc' = [pc EXCEPT ![t] = o.pc]
                /\ call' = [call EXCEPT ![t] = c]
                /\ returned' = NoReturn
                /\ shadow' = shadow

\* Caller t acquires the Mutex of lock label lbl of its call c and runs on to
\* its next lock, or to its return, which drops every guard it holds.
Acquire(t, lbl, c) ==
    /\ mutex[LockOf(lbl)] = 0
    /\ \E o \in Segment(lbl, c, local[t], Slots) :
        /\ GAME' = o.S.G
        /\ WARRIOR_CONTEXT' = o.S.W
        /\ WARRIOR_DECK_CONTEXT' = o.S.D
        /\ PVE_BATTLE' = o.S.B
        /\ local' = [local EXCEPT ![t] = o.loc]
        /\ IF o.pc = "done"
           THEN /\ pc' = [pc EXCEPT ![t] = "idle"]
                /\ call' = [call EXCEPT ![t] = NoCall]
                /\ returned' = [proc |-> t, call |-> c, res |-> o.res]
                /\ shadow' = Commit(shadow, c, o.res, o.S,
                                     {s \in SlotNames : mutex[s] = t} \cup {LockOf(lbl)})
                /\ mutex' = [s \in SlotNames |-> IF mutex[s] = t THEN 0 ELSE mutex[s]]
           ELSE /\ pc' = [pc EXCEPT ![t] = o.pc]
                /\ call' = [call EXCEPT ![t] = c]
                /\ returned' = NoReturn
                /\ shadow' = shadow
                /\ mutex' = [mutex EXCEPT ![LockOf(lbl)] = t]

\* A step of operation op on caller t: the host invokes it on an idle caller (its
\* first lock), or the caller goes on from the lock label it waits at.
Exec(t, op) ==
    IF pc[t] = "idle"
    THEN \E c \in {k \in Calls : k.op = op} : Acquire(t, FirstLabel(op), c)
    ELSE call[t].op = op /\ Acquire(t, pc[t], call[t])

create_game(t) ==
    /\ pc[t] = "idle"
    /\ Exec(t, "create_game")

create_session(t) ==
    /\ pc[t] \in {"idle", "create_session_DECK", "create_session_GAME"}
    /\ Exec(t, "create_session")

peak_movement(t) ==
    /\ pc[t] \in {"idle", "peak_movement_WARRIOR"}
    /\ Exec(t, "peak_movement")

move_player(t) ==
    /\ pc[t] \in {"idle", "move_player_WARRIOR", "move_player_DECK",
                  "move_player_BATTLE"}
    /\ Exec(t, "move_player")

create_pve_battle(t) ==
    /\ pc[t] = "idle"
    /\ Exec(t, "create_pve_battle")

start(t) ==
    /\ pc[t] \in {"idle", "start_BATTLE"}
    /\ Exec(t, "start")

iterate(t) ==
    /\ pc[t] \in {"idle", "iterate_BATTLE"}
    /\ Exec(t, "iterate")

check_peak_target(t) ==
    /\ pc[t] = "idle"
    /\ Exec(t, "check_peak_target")

destroy(t) ==
    /\ pc[t] \in {"idle", "destroy_WARRIOR", "destroy_DECK"}
    /\ Exec(t, "destroy")

create_standalone_battle(t) ==
    /\ pc[t] = "idle"
    /\ Exec(t, "create_standalone_battle")

Step(t) ==
    \/ create_game(t)
    \/ create_session(t)
    \/ peak_movement(t)
    \/ move_player(t)
    \/ create_pve_battle(t)
    \/ start(t)
    \/ iterate(t)
    \/ check_peak_target(t)
    \/ destroy(t)
    \/ create_standalone_battle(t)

Next == \E t \in Procs : Step(t)

Spec == Init /\ [][Next]_vars

\* The same program with the history variable switched on.
SerialInit ==
    /\ GAME = None
    /\ WARRIOR_CONTEXT = None
    /\ WARRIOR_DECK_CONTEXT = None
    /\ PVE_BATTLE = None
    /\ mutex = [s \in SlotNames |-> 0]
    /\ pc = [t \in Procs |-> "idle"]
    /\ call = [t \in Procs |-> NoCall]
    /\ local = [t \in Procs |-> None]
    /\ returned = NoReturn
    /\ shadow = [track |-> TRUE, ok |-> TRUE, S |-> EmptySlots]

SerialSpec == SerialInit /\ [][Next]_vars

\* ------------------------------------------------------------------ properties
AllIdle == \A t \in Procs : pc[t] = "idle"

\* This step is a step of caller t running operation op.
StepOf(t, op) ==
    \/ returned'.proc = t /\ returned'.call.op = op
    \/ pc'[t] # pc[t] /\ call'[t].op = op

BattleOps == {"start", "iterate", "check_peak_target", "destroy"}

\* C1: create_game succeeds at most once.  No step empties an occupied Game slot
\* or puts another game (another seed) in it; a create_game that finds the slot
\* occupied returns the already-initialized error and leaves the Game as it is;
\* and a create_game returns Ok exactly when it found the slot empty and filled it.
C1_CreateGameOnce ==
    [][ /\ is_some(GAME) =>
            /\ is_some(GAME')
            /\ Unwrap(GAME').seed = Unwrap(GAME).seed
        /\ returned'.call.op = "create_game" =>
            IF is_some(GAME)
            THEN returned'.res = ErrGameInitialized /\ GAME' = GAME
            ELSE returned'.res = OkUnit <=> is_some(GAME') ]_vars

\* C1 witness: a create_game with another seed has just failed on an occupied slot.
C1_Witness ==
    /\ returned.call.op = "create_game"
    /\ returned.res = ErrGameInitialized
    /\ is_some(GAME)
    /\ Unwrap(GAME).seed # returned.call.seed

\* C2: between calls, a live Battle means empty WarriorContext and
\* WarriorDeckContext slots.
C2_BattleExcludesWarrior ==
    (AllIdle /\ is_some(PVE_BATTLE)) =>
        (is_none(WARRIOR_CONTEXT) /\ is_none(WARRIOR_DECK_CONTEXT))

\* C3: a create_standalone_battle that finds the Battle slot occupied does not
\* succeed and leaves the live Battle in place.
C3_StandaloneConflict ==
    [][ (returned'.call.op = "create_standalone_battle" /\ is_some(PVE_BATTLE)) =>
            (returned'.res \in Errors /\ PVE_BATTLE' = PVE_BATTLE) ]_vars

\* C4: the WarriorContext slot is occupied if and only if the WarriorDeckContext
\* slot is, in every state a caller can observe.
C4_WarriorIffDeck ==
    is_some(WARRIOR_CONTEXT) <=> is_some(WARRIOR_DECK_CONTEXT)

\* C4 witness: a destroy has just put back the pair of a standalone battle.
C4_Witness ==
    /\ returned.call.op = "destroy"
    /\ returned.res = OkUnit
    /\ is_some(WARRIOR_CONTEXT)
    /\ is_some(WARRIOR_DECK_CONTEXT)
    /\ Unwrap(WARRIOR_CONTEXT).id \in GuestIds

\* C5: a step of move_player changes the Battle slot only by the Fight install:
\* every step before the Battle lock, so every call that does not end in Fight,
\* leaves the slot as it was; the Fight install on an empty slot stores the
\* battle the engine returned and returns the serialized move result (Ok, or
\* the adapter's error); on an occupied slot it returns the conflict error and
\* keeps the Battle that was there.
C5_MovePlayerBattle ==
    [][ \A t \in Procs : StepOf(t, "move_player") =>
            IF pc[t] # "move_player_BATTLE"
            THEN PVE_BATTLE' = PVE_BATTLE /\ returned'.res # OkFight
            ELSE IF is_none(PVE_BATTLE)
                 THEN /\ returned'.res = local[t].js_value
                      /\ returned'.res \in {OkFight, ErrSerialize}
                      /\ is_some(local[t].battle)
                      /\ PVE_BATTLE' = local[t].battle
                 ELSE /\ returned'.res = ErrBattleTriggered
                      /\ PVE_BATTLE' = PVE_BATTLE ]_vars

\* C5 witness: a move_player ending in Fight has just failed on a live Battle.
C5_Witness ==
    /\ returned.call.op = "move_player"
    /\ returned.res = ErrBattleTriggered
    /\ is_some(PVE_BATTLE)

\* C6: destroy takes out of the Battle slot the warrior and deck that Battle
\* held, and when it returns Ok the Battle slot is empty and the WarriorContext
\* and WarriorDeckContext slots hold exactly those two values.
C6_DestroyRoundTrip ==
    [][ \A t \in Procs :
          /\ (StepOf(t, "destroy") /\ pc'[t] = "destroy_WARRIOR") =>
                /\ is_some(PVE_BATTLE)
                /\ is_none(PVE_BATTLE')
                /\ local'[t] \in battle_destroy(Unwrap(PVE_BATTLE)) \ {None}
          /\ (pc[t] = "destroy_WARRIOR" /\ pc'[t] = "destroy_DECK") =>
                local'[t] = local[t]
          /\ (returned'.proc = t /\ returned'.call.op = "destroy"
                /\ returned'.res = OkUnit) =>
                /\ is_none(PVE_BATTLE')
                /\ is_some(local[t])
                /\ WARRIOR_CONTEXT' = Some(Unwrap(local[t]).warrior)
                /\ WARRIOR_DECK_CONTEXT' = Some(Unwrap(local[t]).deck) ]_vars

\* C6 witness: a destroy has just returned Ok over a session whose pair it
\* replaced by the one from the battle.
C6_Witness ==
    /\ returned.call.op = "destroy"
    /\ returned.res = OkUnit
    /\ is_none(PVE_BATTLE)
    /\ is_some(GAME)
    /\ is_some(WARRIOR_CONTEXT)
    /\ is_some(WARRIOR_DECK_CONTEXT)

\* C7: an installed Battle leaves its slot only through a destroy that goes on to
\* put its warrior and deck back; no step replaces it by another battle, and no
\* step empties the slot and returns without the pair restored.
C7_BattleNeverLost ==
    [][ /\ (is_some(PVE_BATTLE) /\ is_some(PVE_BATTLE')) =>
              /\ Unwrap(PVE_BATTLE').player = Unwrap(PVE_BATTLE).player
              /\ Unwrap(PVE_BATTLE').deck = Unwrap(PVE_BATTLE).deck
        /\ (is_some(PVE_BATTLE) /\ is_none(PVE_BATTLE')) =>
              \E t \in Procs :
                  /\ pc'[t] = "destroy_WARRIOR"
                  /\ local'[t] \in battle_destroy(Unwrap(PVE_BATTLE)) \ {None} ]_vars

\* C8: a step of start, iterate, check_peak_target or destroy taken, up to its
\* read of the Battle slot, while that slot is empty changes none of the four
\* slots, never gets past the read, and returns only the none-option error of the
\* battle (or of the game, for the two that lock the Game first).
C8_NoBattleNoMutation ==
    [][ \A t \in Procs : \A op \in BattleOps :
          (/\ StepOf(t, op)
           /\ pc[t] \in {"idle", "start_BATTLE", "iterate_BATTLE"}
           /\ is_none(PVE_BATTLE)) =>
              /\ Slots' = Slots
              /\ pc'[t] \in {"idle", "start_BATTLE", "iterate_BATTLE"}
              /\ pc[t] # "idle" => returned'.res = ErrNoneBattle
              /\ returned'.proc = t =>
                    returned'.res \in {ErrNoneBattle, ErrNoneGame}
              /\ (returned'.proc = t /\ op \in {"check_peak_target", "destroy"}) =>
                    returned'.res = ErrNoneBattle ]_vars

\* C8 witness: a destroy has just failed for want of a Battle, in the middle of
\* a session.
C8_Witness ==
    /\ returned.call.op = "destroy"
    /\ returned.res = ErrNoneBattle
    /\ is_none(PVE_BATTLE)
    /\ is_some(GAME)
    /\ is_some(WARRIOR_CONTEXT)

\* The caller that holds the Mutex caller t waits for (0: t is idle, or the
\* Mutex is free).
WaitsFor(t) == IF pc[t] = "idle" THEN 0 ELSE mutex[LockOf(pc[t])]

\* C9: no two calls ever wait for a Mutex the other one holds.
C9_NoDeadlock ==
    ~ \E t, u \in Procs : t # u /\ WaitsFor(t) = u /\ WaitsFor(u) = t

\* C10: the calls are serialized.  Every call returns what a whole, undisturbed
\* run of it returns on the slots left by the calls that returned before it, and
\* once no call is in flight the four slots are those of that sequential run.
C10_Serializable ==
    /\ shadow.ok
    /\ AllIdle => shadow.S = Slots

\* C10 witness: a move_player has returned in the middle of a destroy that has
\* already emptied the Battle slot and not yet put the pair back.
C10_Witness ==
    /\ shadow.track
    /\ \E t \in Procs : pc[t] \in {"destroy_WARRIOR", "destroy_DECK"}
    /\ returned.call.op = "move_player"
    /\ returned.res = OkMove
    /\ shadow.S # Slots

\* C11: a Battle exists only while a Game does.
C11_BattleNeedsGame ==
    is_some(PVE_BATTLE) => is_some(GAME)

\* C12: the step of destroy that puts the warrior and deck back, finding one of
\* the two slots occupied, fails and overwrites neither.
C12_DestroyNeverOverwrites ==
    [][ \A t \in Procs :
          (/\ pc[t] = "destroy_DECK"
           /\ pc'[t] = "idle"
           /\ is_some(WARRIOR_CONTEXT) \/ is_some(WARRIOR_DECK_CONTEXT)) =>
              /\ returned'.res \in Errors
              /\ WARRIOR_CONTEXT' = WARRIOR_CONTEXT
              /\ WARRIOR_DECK_CONTEXT' = WARRIOR_DECK_CONTEXT ]_vars

FightConflict(r) ==
    r.call.op = "move_player" /\ r.res = ErrBattleTriggered

\* C13: a call that returns an error has changed no slot, the one exception
\* being move_player refused at the Fight install: the step that returns the
\* error changes nothing, and a call changes a slot before its last step only
\* where nothing but that refusal can still fail.
C13_ErrorsLeaveSlots ==
    [][ /\ (returned'.res \in Errors /\ ~FightConflict(returned')) =>
              Slots' = Slots
        /\ \A t \in Procs :
              (pc'[t] # pc[t] /\ pc'[t] # "idle" /\ Slots' # Slots) =>
                  pc'[t] \in {"move_player_BATTLE", "destroy_WARRIOR"}
        /\ \A t \in Procs :
              (pc[t] \in {"destroy_WARRIOR", "destroy_DECK"} /\ returned'.proc = t) =>
                  returned'.res \notin Errors ]_vars

\* C14: create_session returns "none game option" whenever the Game slot is
\* empty and the conflict error whenever the Warrior or Deck slot is occupied,
\* changing nothing in both cases; it installs the pair only with a Game
\* present and both slots empty.
C14_CreateSessionChecks ==
    [][ returned'.call.op = "create_session" =>
          /\ is_none(GAME) =>
                returned'.res = ErrNoneGame /\ Slots' = Slots
          /\ (is_some(WARRIOR_CONTEXT) \/ is_some(WARRIOR_DECK_CONTEXT)) =>
                returned'.res = ErrSessionConflict /\ Slots' = Slots
          /\ returned'.res = OkUnit =>
                /\ is_some(GAME)
                /\ is_none(WARRIOR_CONTEXT) /\ is_none(WARRIOR_DECK_CONTEXT)
                /\ is_some(WARRIOR_CONTEXT') /\ is_some(WARRIOR_DECK_CONTEXT') ]_vars

\* C15: create_pve_battle returns Ok exactly when the Battle slot is occupied and
\* "no battle triggered from map" otherwise, and changes no slot; in the state
\* a successful destroy leaves, create_pve_battle fails with that error.
C15_CreatePveBattle ==
    [][ /\ returned'.call.op = "create_pve_battle" =>
              /\ Slots' = Slots
              /\ is_some(PVE_BATTLE) => returned'.res = OkUnit
              /\ is_none(PVE_BATTLE) => returned'.res = ErrNoBattle
        /\ (returned'.call.op = "destroy" /\ returned'.res = OkUnit) =>
              \A c \in Calls : c.op = "create_pve_battle" =>
                  \A o \in RunCall(c, Slots') : o.res = ErrNoBattle ]_vars

\* create_pve_battle has failed for want of a Battle after a destroy has put a
\* battle's warrior back.
C15_Witness ==
    /\ returned.call.op = "create_pve_battle"
    /\ returned.res = ErrNoBattle
    /\ is_some(WARRIOR_CONTEXT)
    /\ Unwrap(WARRIOR_CONTEXT).id \in GuestIds

LockRank ==
    [GAME |-> 1, WARRIOR_CONTEXT |-> 2, WARRIOR_DECK_CONTEXT |-> 3,
     PVE_BATTLE |-> 4]

\* C17: locks are taken in the order Game, Warrior, Deck, Battle: a caller about
\* to take a lock holds no lock that comes later in that order.
C17_LockOrder ==
    \A t \in Procs :
        pc[t] # "idle" =>
            \A s \in SlotNames :
                mutex[s] = t => LockRank[s] < LockRank[LockOf(pc[t])]

\* C18: a call changes a slot only once it holds every lock it takes: a step
\* after which the caller still has a lock to take changes no slot.
C18_LocksBeforeMutation ==
    [][ \A t \in Procs :
          (pc'[t] # pc[t] /\ pc'[t] # "idle") => Slots' = Slots ]_vars

\* C19: a move_player whose move_to yields Fight while a Battle is installed
\* fails with "battle already triggered from map"; what move_to did to game,
\* warrior and deck is in the slots when the Battle lock is requested, stays
\* there until the call returns and is not undone by the failure, and the
\* Battle slot keeps the Battle it held.
C19_FightConflictKeepsMove ==
    [][ \A t \in Procs :
          /\ (pc[t] = "move_player_DECK" /\ pc'[t] = "move_player_BATTLE") =>
                \E point \in Points :
                    \E m \in move_to(Unwrap(GAME), Unwrap(WARRIOR_CONTEXT),
                                     Unwrap(WARRIOR_DECK_CONTEXT), point) :
                        /\ m.kind = "Fight"
                        /\ GAME' = Some(m.game)
                        /\ WARRIOR_CONTEXT' = Some(m.warrior)
                        /\ WARRIOR_DECK_CONTEXT' = Some(m.deck)
          /\ (pc[t] = "move_player_BATTLE" /\ pc'[t] = "move_player_BATTLE") =>
                /\ GAME' = GAME
                /\ WARRIOR_CONTEXT' = WARRIOR_CONTEXT
                /\ WARRIOR_DECK_CONTEXT' = WARRIOR_DECK_CONTEXT
          /\ (pc[t] = "move_player_BATTLE" /\ returned'.proc = t
                /\ is_some(PVE_BATTLE)) =>
                /\ returned'.res = ErrBattleTriggered
                /\ Slots' = Slots ]_vars

\* A second Fight has been refused: the Battle installed by the earlier move is
\* still there and the warrior stands where the refused move took it, not where
\* that Battle began.
C19_Witness ==
    /\ returned.call.op = "move_player"
    /\ returned.res = ErrBattleTriggered
    /\ is_some(PVE_BATTLE)
    /\ Unwrap(PVE_BATTLE).player.id \in PlayerIds
    /\ Unwrap(WARRIOR_CONTEXT).point # Unwrap(PVE_BATTLE).player.point
    /\ Unwrap(GAME).map = Unwrap(WARRIOR_CONTEXT).point

\* C20: no step empties the Warrior or Deck slot once it is occupied;
\* create_session succeeds only from both slots empty and leaves both occupied,
\* so it succeeds at most once, and with either slot occupied it fails with the
\* conflict error, also after a battle has been destroyed.
C20_SessionCreatedOnce ==
    [][ /\ is_some(WARRIOR_CONTEXT) => is_some(WARRIOR_CONTEXT')
        /\ is_some(WARRIOR_DECK_CONTEXT) => is_some(WARRIOR_DECK_CONTEXT')
        /\ returned'.call.op = "create_session" =>
              /\ returned'.res = OkUnit =>
                    /\ is_none(WARRIOR_CONTEXT) /\ is_none(WARRIOR_DECK_CONTEXT)
                    /\ is_some(WARRIOR_CONTEXT') /\ is_some(WARRIOR_DECK_CONTEXT')
              /\ (is_some(WARRIOR_CONTEXT) \/ is_some(WARRIOR_DECK_CONTEXT)) =>
                    returned'.res = ErrSessionConflict ]_vars

\* create_session has been refused with a Game present, no Battle installed
\* and the warrior slot holding what a destroyed battle gave back.
C20_Witness ==
    /\ returned.call.op = "create_session"
    /\ returned.res = ErrSessionConflict
    /\ is_some(GAME)
    /\ is_none(PVE_BATTLE)
    /\ is_some(WARRIOR_DECK_CONTEXT)
    /\ Unwrap(WARRIOR_CONTEXT).id \in GuestIds

====
